---- MODULE Spec2Model ----
(***************************************************************************)
(* CrawlerService (app/components/crawler/service.py): one crawl_url       *)
(* invocation with its NUM fetch workers, the frontier queue, the visited  *)
(* set with its lock, the results channel (db_queue), the _db_writer relay *)
(* and the storage table.                                                  *)
(*                                                                         *)
(* The tasks run on one asyncio event loop, so a task is left only at an   *)
(* await that suspends: context.new_page, queue.get on an empty queue, the *)
(* page calls, page.close, queue.join, gather, db_queue.join, db_task.     *)
(* put on a queue without maxsize and acquiring a free asyncio.Lock do not *)
(* suspend; nothing is awaited inside "async with visited_lock", so the    *)
(* lock is free at every suspension. One action is one loop iteration's    *)
(* run from one such await to the next.                                    *)
(*                                                                         *)
(* Spec is the crawl. SpecScorer is _get_best_links on its own, SpecExpand *)
(* the link expansion of one fetched item on its own, and SpecSections the *)
(* two visited_lock sections under a scheduler that may switch anywhere.   *)
(***************************************************************************)
EXTENDS Integers, Sequences, FiniteSets, Bags, TLC

\* ------------------------------------------------------------------ bounds

\* Largest max_depth argument a caller passes to crawl_url.
MaxDepth == 3

\* Longest list of candidate links passed to _get_best_links on its own.
MaxLinks == 3

\* Largest limit passed to _get_best_links on its own.
MaxLimit == 2

\* Largest max_depth argument passed when the evaluation of robots.txt
\* raises for the crawl's URLs (every link is then permitted, and the crawl
\* follows the links as it does with robots.txt unreachable).
MaxRaisingDepth == 1

\* ------------------------------------------------------- program constants

\* NUM = 6 fetch workers.
NUM == 6

\* targets = list(set(discovered))[:50]
ShallowCap == 50

\* _get_best_links(links, visited, limit=5)
BestLimit == 5

\* ---------------------------------------------------------------- the site

\* The URLs of the crawled site, as urljoin() resolves its hrefs.
SeedUrl == "http://h/"

Urls == {"http://h/", "http://h/a", "http://h/c/d", "http://h/private",
         "http://x/", "mailto:m"}

\* urlparse(u).netloc
Netloc(u) ==
  CASE u = "http://x/" -> "x"
    [] u = "mailto:m" -> ""
    [] OTHER -> "h"

\* full.startswith("http")
StartsWithHttp(u) == u # "mailto:m"

\* The <a href> targets of each page (soup.find_all("a", href=True), each
\* resolved by urljoin), in document order.
Hrefs(u) ==
  CASE u = "http://h/" ->
         <<"http://h/a", "http://h/private", "http://x/", "mailto:m", "http://h/a">>
    [] u = "http://h/a" -> <<"http://h/c/d">>
    [] u = "http://h/private" -> <<"http://h/a">>
    [] u = "http://h/c/d" -> <<"http://h/", "http://h/a">>
    [] OTHER -> <<>>

\* What requests.get(robots) and rp.parse do: "unreachable": one of the two
\* raises (they share one try), or the file is read and says
\* "Disallow: /private" or "Disallow: /"; "raising": it says "Disallow: /" and
\* rp.can_fetch raises for the URLs of the crawl (urlparse's ValueError, as
\* for a host such as %5Bh).
RobotsOutcomes ==
  {"unreachable", "disallow_private", "disallow_all", "raising"}

\* The parser _get_robots_parser returns: its allow_all flag set, or the rules
\* it parsed.
RobotsPolicies == {"allow_all", "disallow_private", "disallow_all", "raising"}

\* mutant of get_robots_parser: the except branch sets disallow_all
get_robots_parser_FailClosed(outcome) ==
  IF outcome = "unreachable" THEN "disallow_all" ELSE outcome

\* _get_robots_parser(url): try: requests.get, rp.parse; except: rp.allow_all = True
get_robots_parser(outcome) ==
  IF outcome = "unreachable" THEN "allow_all" ELSE outcome

\* rp.can_fetch("*", url) raises: urlparse(unquote(url)) rejects the host of
\* the crawl's own URLs; a URL without that host (another host, mailto:) is
\* parsed and answered
CanFetchRaises(u, policy) == policy = "raising" /\ Netloc(u) = Netloc(SeedUrl)

\* rp.can_fetch("*", url), when it returns
can_fetch(u, policy) ==
  CASE policy = "allow_all" -> TRUE
    [] policy = "disallow_private" -> u # "http://h/private"
    [] OTHER -> u = "mailto:m"

\* is_allowed(url, rp): try: return rp.can_fetch("*", url); except: return True
is_allowed(u, policy) ==
  IF CanFetchRaises(u, policy) THEN TRUE ELSE can_fetch(u, policy)

\* ------------------------------------------------------------------- state

VARIABLES
  url,          \* crawl_url argument: the seed
  recursive,    \* crawl_url argument
  max_depth,    \* crawl_url argument
  robots,       \* what fetching and parsing the origin's robots.txt did
  rp,           \* the robots parser _get_robots_parser returned
  opc,          \* where crawl_url is
  status,       \* the summary's "status" ("" until crawl_url returns)
  pages_crawled,\* the summary's "pages_crawled" (len(rows))
  queue,        \* the frontier's queued items (asyncio.Queue _queue)
  unfinished,   \* the frontier's _unfinished_tasks
  db_queue,     \* the results channel's queued items
  db_unfinished,\* the results channel's _unfinished_tasks
  visited,      \* the visited set
  visited_lock, \* whether visited_lock is held (across an await)
  workers,      \* the worker tasks: the bag of their local states (_worker
                \* never reads its index wid)
  dpc,          \* the relay's position in _db_writer
  rows,         \* the crawled_pages rows of this session, in insert order
  emitted,      \* history: every CrawlResult put on the results channel
  passed,       \* history: per URL, how often the dedup check let it through
  ndeq,         \* history: real (non-sentinel) items dequeued
  nskip,        \* history: duplicate skips
  nsent,        \* history: sentinels dequeued by workers
  nclosefail,   \* history: page.close() calls that raised
  cancelled,    \* asyncio.run has cancelled the tasks crawl_url left behind
  arg_links,    \* _get_best_links called on its own: the links argument
  arg_limit,    \* ... its limit argument (visited is its visited argument)
  best,         \* ... the list it returned
  best2,        \* the list a second call returned, given the same
                \* candidates in another list order
  calls,        \* how many of the two calls were made
  arg_item      \* the link expansion of _worker on its own: the item whose
                \* page was fetched (arg_links is its list(set(discovered)))

vars == <<url, recursive, max_depth, robots, rp, opc, status, pages_crawled, queue,
          unfinished, db_queue, db_unfinished, visited, visited_lock, workers,
          dpc, rows, emitted, passed, ndeq, nskip, nsent, nclosefail, cancelled,
          arg_links, arg_limit, best,
          best2, calls, arg_item>>

inputs == <<url, recursive, max_depth, robots, rp>>
frontier == <<queue, unfinished>>
channel == <<db_queue, db_unfinished, emitted>>
orch == <<opc, status, pages_crawled, cancelled>>
hist == <<passed, ndeq, nskip, nsent, nclosefail>>
scorer == <<arg_links, arg_limit, best, best2, calls, arg_item>>
crawl == <<inputs, orch, frontier, channel, workers, dpc, rows, hist, visited_lock>>

\* None, the sentinel of both queues
None == <<>>

Init ==
  /\ url = SeedUrl
  /\ recursive \in BOOLEAN
  /\ max_depth \in 0..MaxDepth
  /\ robots \in RobotsOutcomes
  /\ robots = "raising" => max_depth <= MaxRaisingDepth
  /\ rp = get_robots_parser(robots)
  /\ opc = "start"
  /\ status = ""
  /\ pages_crawled = 0
  /\ queue = <<>>
  /\ unfinished = 0
  /\ db_queue = <<>>
  /\ db_unfinished = 0
  /\ visited = {}
  /\ visited_lock = FALSE
  /\ workers = EmptyBag
  /\ dpc = "none"
  /\ rows = <<>>
  /\ emitted = <<>>
  /\ passed = [u \in Urls |-> 0]
  /\ ndeq = 0
  /\ nskip = 0
  /\ nsent = 0
  /\ nclosefail = 0
  /\ cancelled = FALSE
  /\ arg_links = <<>>
  /\ arg_limit = BestLimit
  /\ best = <<>>
  /\ best2 = <<>>
  /\ calls = 0
  /\ arg_item = <<>>

\* ----------------------------------------------------------------- helpers

Min(a, b) == IF a < b THEN a ELSE b

\* the elements of a list
Elems(seq) == {seq[i] : i \in DOMAIN seq}

\* seq[:n]
Prefix(seq, n) == SubSeq(seq, 1, Min(n, Len(seq)))

\* list(set(xs)): the distinct elements, in whatever order the set iterates
ListOfSet(S) ==
  {f \in [1..Cardinality(S) -> S] : \A i, j \in 1..Cardinality(S) : f[i] = f[j] => i = j}

\* asyncio.Queue.put on a queue without maxsize: append, one more unfinished
RECURSIVE PutAll(_, _)
PutAll(q, items) ==
  IF items = <<>> THEN q ELSE PutAll(Append(q, Head(items)), Tail(items))

\* ------------------------------------------------------------ link scoring

\* _url_entropy(url), in thousandths of a bit
UrlEntropy(u) ==
  CASE u = "http://h/" -> 2197
    [] u = "http://h/a" -> 2446
    [] u = "http://h/a//b" -> 2499
    [] u = "http://h/a/b/c" -> 2692
    [] u = "http://h/a/b/c/d" -> 2780
    [] u = "http://h/a/b/c/d/e" -> 2855
    [] u = "http://h/a/b/c/d/xxxxx" -> 2856
    [] u \in {"http://h/ab", "http://h/ba"} -> 2663
    [] u = "http://h/c/d" -> 2584
    [] u = "http://h/private" -> 3155
    [] u = "http://x/" -> 2419
    [] u = "mailto:m" -> 2750

\* urlparse(u).path.split("/")
PathSplit(u) ==
  CASE u \in {"http://h/", "http://x/"} -> <<"", "">>
    [] u = "http://h/a" -> <<"", "a">>
    [] u = "http://h/a//b" -> <<"", "a", "", "b">>
    [] u = "http://h/a/b/c" -> <<"", "a", "b", "c">>
    [] u = "http://h/a/b/c/d" -> <<"", "a", "b", "c", "d">>
    [] u = "http://h/a/b/c/d/e" -> <<"", "a", "b", "c", "d", "e">>
    [] u = "http://h/a/b/c/d/xxxxx" -> <<"", "a", "b", "c", "d", "xxxxx">>
    [] u = "http://h/ab" -> <<"", "ab">>
    [] u = "http://h/ba" -> <<"", "ba">>
    [] u = "http://h/c/d" -> <<"", "c", "d">>
    [] u = "http://h/private" -> <<"", "private">>
    [] u = "mailto:m" -> <<"m">>

\* depth = len(list(filter(None, path.split("/"))))
PathDepth(u) == Len(SelectSeq(PathSplit(u), LAMBDA seg : seg # ""))

\* len(s1) + ... + len(sn)
RECURSIVE SumLen(_)
SumLen(segs) == IF segs = <<>> THEN 0 ELSE Len(Head(segs)) + SumLen(Tail(segs))

\* plen = len(path): the segments and the "/" between them
PathLen(u) == SumLen(PathSplit(u)) + Len(PathSplit(u)) - 1

\* SequenceMatcher(None, a, b).ratio() of two different http URLs, in
\* thousandths (the ratio is the same in both directions for these URLs)
Ratio ==
  {"http://h/", "http://h/a"} :> 947
  @@ {"http://h/", "http://h/a//b"} :> 818
  @@ {"http://h/", "http://h/a/b/c"} :> 782
  @@ {"http://h/", "http://h/a/b/c/d"} :> 720
  @@ {"http://h/", "http://h/a/b/c/d/e"} :> 666
  @@ {"http://h/", "http://h/a/b/c/d/xxxxx"} :> 580
  @@ {"http://h/", "http://h/ab"} :> 900
  @@ {"http://h/", "http://h/ba"} :> 900
  @@ {"http://h/", "http://h/c/d"} :> 857
  @@ {"http://h/", "http://h/private"} :> 720
  @@ {"http://h/", "http://x/"} :> 888
  @@ {"http://h/a", "http://h/a//b"} :> 869
  @@ {"http://h/a", "http://h/a/b/c"} :> 833
  @@ {"http://h/a", "http://h/a/b/c/d"} :> 769
  @@ {"http://h/a", "http://h/a/b/c/d/e"} :> 714
  @@ {"http://h/a", "http://h/a/b/c/d/xxxxx"} :> 625
  @@ {"http://h/a", "http://h/ab"} :> 952
  @@ {"http://h/a", "http://h/ba"} :> 952
  @@ {"http://h/a", "http://h/c/d"} :> 818
  @@ {"http://h/a", "http://h/private"} :> 769
  @@ {"http://h/a", "http://x/"} :> 842
  @@ {"http://h/a//b", "http://h/a/b/c"} :> 888
  @@ {"http://h/a//b", "http://h/a/b/c/d"} :> 827
  @@ {"http://h/a//b", "http://h/a/b/c/d/e"} :> 774
  @@ {"http://h/a//b", "http://h/a/b/c/d/xxxxx"} :> 685
  @@ {"http://h/a//b", "http://h/ab"} :> 916
  @@ {"http://h/a//b", "http://h/ba"} :> 833
  @@ {"http://h/a//b", "http://h/c/d"} :> 800
  @@ {"http://h/a//b", "http://h/private"} :> 689
  @@ {"http://h/a//b", "http://x/"} :> 727
  @@ {"http://h/a/b/c", "http://h/a/b/c/d"} :> 933
  @@ {"http://h/a/b/c", "http://h/a/b/c/d/e"} :> 875
  @@ {"http://h/a/b/c", "http://h/a/b/c/d/xxxxx"} :> 777
  @@ {"http://h/a/b/c", "http://h/ab"} :> 880
  @@ {"http://h/a/b/c", "http://h/ba"} :> 800
  @@ {"http://h/a/b/c", "http://h/c/d"} :> 769
  @@ {"http://h/a/b/c", "http://h/private"} :> 666
  @@ {"http://h/a/b/c", "http://x/"} :> 695
  @@ {"http://h/a/b/c/d", "http://h/a/b/c/d/e"} :> 941
  @@ {"http://h/a/b/c/d", "http://h/a/b/c/d/xxxxx"} :> 842
  @@ {"http://h/a/b/c/d", "http://h/ab"} :> 814
  @@ {"http://h/a/b/c/d", "http://h/ba"} :> 740
  @@ {"http://h/a/b/c/d", "http://h/c/d"} :> 857
  @@ {"http://h/a/b/c/d", "http://h/private"} :> 625
  @@ {"http://h/a/b/c/d", "http://x/"} :> 640
  @@ {"http://h/a/b/c/d/e", "http://h/a/b/c/d/xxxxx"} :> 850
  @@ {"http://h/a/b/c/d/e", "http://h/ab"} :> 758
  @@ {"http://h/a/b/c/d/e", "http://h/ba"} :> 689
  @@ {"http://h/a/b/c/d/e", "http://h/c/d"} :> 800
  @@ {"http://h/a/b/c/d/e", "http://h/private"} :> 647
  @@ {"http://h/a/b/c/d/e", "http://x/"} :> 592
  @@ {"http://h/a/b/c/d/xxxxx", "http://h/ab"} :> 666
  @@ {"http://h/a/b/c/d/xxxxx", "http://h/ba"} :> 606
  @@ {"http://h/a/b/c/d/xxxxx", "http://h/c/d"} :> 705
  @@ {"http://h/a/b/c/d/xxxxx", "http://h/private"} :> 526
  @@ {"http://h/a/b/c/d/xxxxx", "http://x/"} :> 516
  @@ {"http://h/ab", "http://h/ba"} :> 909
  @@ {"http://h/ab", "http://h/c/d"} :> 782
  @@ {"http://h/ab", "http://h/private"} :> 740
  @@ {"http://h/ab", "http://x/"} :> 800
  @@ {"http://h/ba", "http://h/c/d"} :> 782
  @@ {"http://h/ba", "http://h/private"} :> 740
  @@ {"http://h/ba", "http://x/"} :> 800
  @@ {"http://h/c/d", "http://h/private"} :> 642
  @@ {"http://h/c/d", "http://x/"} :> 761
  @@ {"http://h/private", "http://x/"} :> 640

\* _similarity(a, b), in thousandths
Similarity(a, b) == IF a = b THEN 1000 ELSE Ratio[{a, b}]

\* the place of a URL in Python's string order
StrRank(u) ==
  CASE u = "http://h/" -> 1
    [] u = "http://h/a" -> 2
    [] u = "http://h/a//b" -> 3
    [] u = "http://h/a/b/c" -> 4
    [] u = "http://h/a/b/c/d" -> 5
    [] u = "http://h/a/b/c/d/e" -> 6
    [] u = "http://h/a/b/c/d/xxxxx" -> 7
    [] u = "http://h/ab" -> 8
    [] u = "http://h/ba" -> 9
    [] u = "http://h/c/d" -> 10
    [] u = "http://h/private" -> 11
    [] u = "http://x/" -> 12
    [] u = "mailto:m" -> 13

\* mutant of DupPenalty: the test is similarity >= 0.85
DupPenalty_Inclusive(link, vis) ==
  (0 - 5000) * Cardinality({v \in vis : Similarity(link, v) >= 850})

\* dup_penalty: -5 for every visited URL more than 0.85 similar to the link
DupPenalty(link, vis) ==
  (0 - 5000) * Cardinality({v \in vis : Similarity(link, v) > 850})

\* mutant of DepthBonus: the upper bound on depth is left out
DepthBonus_NoUpperBound(link) ==
  IF 2 <= PathDepth(link) THEN 2000 ELSE 0

\* (2 <= depth <= 4) * 2
DepthBonus(link) ==
  IF 2 <= PathDepth(link) /\ PathDepth(link) <= 4 THEN 2000 ELSE 0

\* (20 < plen < 120) * 2
LengthBonus(link) ==
  IF 20 < PathLen(link) /\ PathLen(link) < 120 THEN 2000 ELSE 0

\* score = entropy + (2 <= depth <= 4) * 2 + (20 < plen < 120) * 2 + dup_penalty
Score(link, vis) ==
  UrlEntropy(link) + DepthBonus(link) + LengthBonus(link) + DupPenalty(link, vis)

\* mutant of TupleLess: the sort compares the scores only (key=score)
TupleLess_ScoreOnly(s1, l1, s2, l2) == s1 < s2

\* (score, link) tuples compare by score, then by link
TupleLess(s1, l1, s2, l2) == s1 < s2 \/ (s1 = s2 /\ StrRank(l1) < StrRank(l2))

\* where (score, link) of x goes in a list sorted descending: behind the
\* entries that compare greater, before those equal or less
InsertAt(x, sorted, vis) ==
  Cardinality({i \in DOMAIN sorted :
                 TupleLess(Score(x, vis), x, Score(sorted[i], vis), sorted[i])})

\* scored.sort(reverse=True): descending by (score, link); equal tuples keep
\* their order
RECURSIVE SortReverse(_, _)
SortReverse(links, vis) ==
  IF links = <<>> THEN <<>>
  ELSE LET rest == SortReverse(Tail(links), vis)
           k == InsertAt(Head(links), rest, vis)
       IN SubSeq(rest, 1, k) \o <<Head(links)>> \o SubSeq(rest, k + 1, Len(rest))

\* mutant of GetBestLinks: scored.sort(reverse=True) is left out
GetBestLinks_Unsorted(links, vis, limit) == Prefix(links, limit)

\* _get_best_links(links, visited, limit)
GetBestLinks(links, vis, limit) == Prefix(SortReverse(links, vis), limit)

\* ------------------------------------------------- the scorer on its own

\* The candidate links given to _get_best_links: paths of 0 to 5 segments, one
\* with an empty segment, and two URLs of equal score.
Candidates ==
  {"http://h/", "http://h/ab", "http://h/ba", "http://h/a//b", "http://h/a/b/c",
   "http://h/a/b/c/d", "http://h/a/b/c/d/e"}

\* The URLs its visited argument is made of.
VisitedPool == {"http://h/a/b/c/d/xxxxx", "http://h/a/b/c", "http://h/"}

\* a list as list(set(discovered)) builds it: no URL twice
Distinct(l) == \A i, j \in DOMAIN l : l[i] = l[j] => i = j

\* the lists holding the elements of l in any order
Orders(l) ==
  {[i \in DOMAIN l |-> l[p[i]]] :
     p \in {q \in [DOMAIN l -> DOMAIN l] : \A i, j \in DOMAIN l : q[i] = q[j] => i = j}}

\* a caller's arguments to _get_best_links; no crawl is running
InitScorer ==
  /\ url = SeedUrl
  /\ recursive = FALSE
  /\ max_depth = 0
  /\ robots = "unreachable"
  /\ rp = get_robots_parser(robots)
  /\ opc = "start"
  /\ status = ""
  /\ pages_crawled = 0
  /\ queue = <<>>
  /\ unfinished = 0
  /\ db_queue = <<>>
  /\ db_unfinished = 0
  /\ visited \in SUBSET VisitedPool
  /\ visited_lock = FALSE
  /\ workers = EmptyBag
  /\ dpc = "none"
  /\ rows = <<>>
  /\ emitted = <<>>
  /\ passed = [u \in Urls |-> 0]
  /\ ndeq = 0
  /\ nskip = 0
  /\ nsent = 0
  /\ nclosefail = 0
  /\ cancelled = FALSE
  /\ arg_links \in {l \in UNION {[1..n -> Candidates] : n \in 0..MaxLinks} :
                     Distinct(l)}
  /\ arg_limit \in 0..MaxLimit
  /\ best = <<>>
  /\ best2 = <<>>
  /\ calls = 0
  /\ arg_item = <<>>

\* best = self._get_best_links(arg_links, visited, arg_limit)
GetBestLinksCall ==
  /\ calls = 0
  /\ best' = GetBestLinks(arg_links, visited, arg_limit)
  /\ calls' = 1
  /\ UNCHANGED <<crawl, visited, arg_links, arg_limit, best2, arg_item>>

\* the call again, with the same candidates in another list order (the order
\* of list(set(discovered)) is not fixed)
GetBestLinksAgain ==
  /\ calls = 1
  /\ \E l \in Orders(arg_links) \ {arg_links} :
       best2' = GetBestLinks(l, visited, arg_limit)
  /\ calls' = 2
  /\ UNCHANGED <<crawl, visited, arg_links, arg_limit, best, arg_item>>

NextScorer == GetBestLinksCall \/ GetBestLinksAgain

SpecScorer == InitScorer /\ [][NextScorer]_vars

\* -------------------------------------------------------------- the worker

\* mutant of DiscoveredFrom: the links are collected without the is_allowed
\* check
RECURSIVE DiscoveredFrom_Ungated(_, _, _)
DiscoveredFrom_Ungated(hrefs, u, policy) ==
  IF hrefs = <<>> THEN <<>>
  ELSE LET full == Head(hrefs)
           rest == DiscoveredFrom_Ungated(Tail(hrefs), u, policy)
       IN IF /\ StartsWithHttp(full)
             /\ Netloc(full) = Netloc(u)
            THEN <<full>> \o rest
            ELSE rest

\* mutant of DiscoveredFrom: the netloc comparison is left out
RECURSIVE DiscoveredFrom_AnyHost(_, _, _)
DiscoveredFrom_AnyHost(hrefs, u, policy) ==
  IF hrefs = <<>> THEN <<>>
  ELSE LET full == Head(hrefs)
           rest == DiscoveredFrom_AnyHost(Tail(hrefs), u, policy)
       IN IF /\ StartsWithHttp(full)
             /\ is_allowed(full, policy)
            THEN <<full>> \o rest
            ELSE rest

\* the loop over soup.find_all("a", href=True): the same-host, permitted http
\* links among hrefs, in document order
RECURSIVE DiscoveredFrom(_, _, _)
DiscoveredFrom(hrefs, u, policy) ==
  IF hrefs = <<>> THEN <<>>
  ELSE LET full == Head(hrefs)
           rest == DiscoveredFrom(Tail(hrefs), u, policy)
       IN IF /\ StartsWithHttp(full)
             /\ Netloc(full) = Netloc(u)
             /\ is_allowed(full, policy)
            THEN <<full>> \o rest
            ELSE rest

\* discovered, for the page at u
Discovered(u) == DiscoveredFrom(Hrefs(u), u, rp)

\* for t in targets: await queue.put((t, depth + 1, max_depth))
Children(targets, depth, cap) ==
  [i \in DOMAIN targets |-> <<targets[i], depth + 1, cap>>]

\* asyncio.run has cancelled the tasks crawl_url left behind when it raised;
\* until then they run on
Cancelled == cancelled

\* a worker's local state: the await it is suspended at, and its item
Local(pc, item) == [pc |-> pc, item |-> item]

\* the worker in local state s goes to local state t
Becomes(s, t) == workers' = (workers (-) SetToBag({s})) (+) SetToBag({t})

\* the workers at position pc
At(pc) == {s \in BagToSet(workers) : s.pc = pc}

\* how many workers are at position pc
CountAt(pc) == BagCardinality([s \in At(pc) |-> workers[s]])

\* page = await context.new_page()
NewPage ==
  \E s \in At("new_page") :
    /\ ~Cancelled
    /\ Becomes(s, Local("get", None))
    /\ UNCHANGED <<scorer, inputs, orch, frontier, channel, visited, visited_lock, dpc,
                   rows, hist>>

\* context.new_page() raises: the worker task ends with the exception
NewPageFails ==
  \E s \in At("new_page") :
    /\ ~Cancelled
    /\ Becomes(s, Local("crashed", None))
    /\ UNCHANGED <<scorer, inputs, orch, frontier, channel, visited, visited_lock, dpc,
                   rows, hist>>

\* item = await queue.get(); the sentinel: task_done, break
GetSentinel ==
  \E s \in At("get") :
    /\ ~Cancelled
    /\ queue # <<>>
    /\ Head(queue) = None
    /\ queue' = Tail(queue)
    /\ unfinished' = unfinished - 1
    /\ Becomes(s, Local("close", None))
    /\ nsent' = nsent + 1
    /\ UNCHANGED <<scorer, inputs, orch, channel, visited, visited_lock, dpc, rows,
                   passed, ndeq, nskip, nclosefail>>

\* async with visited_lock: if url in visited
CheckVisited(u, vis) == u \in vis

\* mutant of MarkVisited: visited.add(url) is left out
MarkVisited_Forgets(u, vis) == vis

\* visited.add(url)
MarkVisited(u, vis) == vis \cup {u}

\* mutant of GetDuplicate: the duplicate skip continues without queue.task_done()
GetDuplicate_NoTaskDone ==
  \E s \in At("get") :
    /\ ~Cancelled
    /\ queue # <<>>
    /\ Head(queue) # None
    /\ ~visited_lock
    /\ CheckVisited(Head(queue)[1], visited)
    /\ queue' = Tail(queue)
    /\ unfinished' = unfinished
    /\ ndeq' = ndeq + 1
    /\ nskip' = nskip + 1
    /\ UNCHANGED <<scorer, inputs, orch, channel, visited, visited_lock, workers, dpc,
                   rows, passed, nsent, nclosefail>>

\* mutant of GetDuplicate: the continue is missing, so the duplicate falls
\* through to page.goto
GetDuplicate_FallsThrough ==
  \E s \in At("get") :
    /\ ~Cancelled
    /\ queue # <<>>
    /\ Head(queue) # None
    /\ ~visited_lock
    /\ CheckVisited(Head(queue)[1], visited)
    /\ queue' = Tail(queue)
    /\ unfinished' = unfinished - 1
    /\ ndeq' = ndeq + 1
    /\ nskip' = nskip + 1
    /\ Becomes(s, Local("goto", Head(queue)))
    /\ UNCHANGED <<scorer, inputs, orch, channel, visited, visited_lock, dpc,
                   rows, passed, nsent, nclosefail>>

\* item = await queue.get(); under visited_lock the URL is found in visited:
\* queue.task_done(); continue
GetDuplicate ==
  \E s \in At("get") :
    /\ ~Cancelled
    /\ queue # <<>>
    /\ Head(queue) # None
    /\ ~visited_lock
    /\ CheckVisited(Head(queue)[1], visited)
    /\ queue' = Tail(queue)
    /\ unfinished' = unfinished - 1
    /\ ndeq' = ndeq + 1
    /\ nskip' = nskip + 1
    /\ UNCHANGED <<scorer, inputs, orch, channel, visited, visited_lock, workers, dpc,
                   rows, passed, nsent, nclosefail>>

\* item = await queue.get(); under visited_lock the URL is not in visited:
\* visited.add(url), on to page.goto
GetItem ==
  \E s \in At("get") :
    /\ ~Cancelled
    /\ queue # <<>>
    /\ Head(queue) # None
    /\ ~visited_lock
    /\ ~CheckVisited(Head(queue)[1], visited)
    /\ queue' = Tail(queue)
    /\ visited' = MarkVisited(Head(queue)[1], visited)
    /\ passed' = [passed EXCEPT ![Head(queue)[1]] = @ + 1]
    /\ ndeq' = ndeq + 1
    /\ Becomes(s, Local("goto", Head(queue)))
    /\ UNCHANGED <<scorer, inputs, orch, unfinished, channel, visited_lock, dpc, rows,
                   nskip, nsent, nclosefail>>

\* a CrawlResult as put on db_queue: (url, title, depth, status)
Result(item, title, outcome) == <<item[1], title, item[2], outcome>>

\* db_queue.put(record)
Emit(record) ==
  /\ db_queue' = Append(db_queue, record)
  /\ db_unfinished' = db_unfinished + 1
  /\ emitted' = Append(emitted, record)

\* queue.task_done() at the end of the loop body, back to queue.get()
ItemDone(s) == Becomes(s, Local("get", None))

\* mutant of Expands: the test is depth <= max_depth
Expands_Inclusive(item) == item[2] <= item[3]

\* if depth < max_depth: the fetched item's links are followed
Expands(item) == item[2] < item[3]

\* mutant of Fetch: the worker stores its record itself instead of handing
\* it to the relay
Fetch_InsertsDirectly ==
  \E s \in At("goto") :
    /\ ~Cancelled
    /\ rows' = Append(rows, Result(s.item, "Title", "success"))
    /\ emitted' = Append(emitted, Result(s.item, "Title", "success"))
    /\ IF Expands(s.item)
         THEN /\ Becomes(s, Local("content", s.item))
              /\ UNCHANGED unfinished
         ELSE /\ unfinished' = unfinished - 1
              /\ ItemDone(s)
    /\ UNCHANGED <<scorer, inputs, orch, queue, db_queue, db_unfinished, visited,
                   visited_lock, dpc, hist>>

\* page.goto, page.title, page.evaluate succeed; db_queue.put(success)
Fetch ==
  \E s \in At("goto") :
    /\ ~Cancelled
    /\ Emit(Result(s.item, "Title", "success"))
    /\ IF Expands(s.item)
         THEN /\ Becomes(s, Local("content", s.item))
              /\ UNCHANGED unfinished
         ELSE /\ unfinished' = unfinished - 1
              /\ ItemDone(s)
    /\ UNCHANGED <<scorer, inputs, orch, queue, visited, visited_lock, dpc, rows, hist>>

\* mutant of FetchFails: the except branch leaves the loop body before queue.task_done()
FetchFails_NoTaskDone ==
  \E s \in At("goto") :
    /\ ~Cancelled
    /\ Emit(Result(s.item, "Error", "failed"))
    /\ unfinished' = unfinished
    /\ ItemDone(s)
    /\ UNCHANGED <<scorer, inputs, orch, queue, visited, visited_lock, dpc, rows, hist>>

\* mutant of FetchFails: the except branch swallows the error without
\* putting a failed record
FetchFails_Silent ==
  \E s \in At("goto") :
    /\ ~Cancelled
    /\ unfinished' = unfinished - 1
    /\ ItemDone(s)
    /\ UNCHANGED <<scorer, inputs, orch, queue, channel, visited, visited_lock, dpc,
                   rows, hist>>

\* page.goto, page.title or page.evaluate raises: the except branch
FetchFails ==
  \E s \in At("goto") :
    /\ ~Cancelled
    /\ Emit(Result(s.item, "Error", "failed"))
    /\ unfinished' = unfinished - 1
    /\ ItemDone(s)
    /\ UNCHANGED <<scorer, inputs, orch, queue, visited, visited_lock, dpc, rows, hist>>

\* if depth < 2: list(set(discovered))[:50]
\* else: async with visited_lock: self._get_best_links(list(set(discovered)), visited)
Targets(depth, l, vis) ==
  IF depth < 2 THEN Prefix(l, ShallowCap) ELSE GetBestLinks(l, vis, BestLimit)

\* mutant of Enqueued: the [:50] slice is left out
Enqueued_Uncapped(item, l, vis) ==
  IF Expands(item)
    THEN Children(IF item[2] < 2 THEN l ELSE GetBestLinks(l, vis, BestLimit),
                  item[2], item[3])
    ELSE <<>>

\* if depth < max_depth: ... for t in targets: await queue.put(...): the
\* items the worker enqueues for the fetched item, l being list(set(discovered))
Enqueued(item, l, vis) ==
  IF Expands(item)
    THEN Children(Targets(item[2], l, vis), item[2], item[3])
    ELSE <<>>

\* mutant of Extract: the loop body ends without queue.task_done()
Extract_NoTaskDone ==
  \E s \in At("content") :
    /\ ~Cancelled
    /\ s.item[2] >= 2 => ~visited_lock
    /\ \E l \in ListOfSet(Elems(Discovered(s.item[1]))) :
         LET children == Enqueued(s.item, l, visited) IN
         /\ queue' = PutAll(queue, children)
         /\ unfinished' = unfinished + Len(children)
    /\ ItemDone(s)
    /\ UNCHANGED <<scorer, inputs, orch, channel, visited, visited_lock, dpc, rows, hist>>

\* page.content() and the link extraction succeed: the targets are enqueued
Extract ==
  \E s \in At("content") :
    /\ ~Cancelled
    /\ s.item[2] >= 2 => ~visited_lock
    /\ \E l \in ListOfSet(Elems(Discovered(s.item[1]))) :
         LET children == Enqueued(s.item, l, visited) IN
         /\ queue' = PutAll(queue, children)
         /\ unfinished' = unfinished + Len(children) - 1
    /\ ItemDone(s)
    /\ UNCHANGED <<scorer, inputs, orch, channel, visited, visited_lock, dpc, rows, hist>>

\* mutant of ExtractFails: the except branch calls queue.task_done() itself,
\* and the end of the loop body calls it again
ExtractFails_DoneTwice ==
  \E s \in At("content") :
    /\ ~Cancelled
    /\ Emit(Result(s.item, "Error", "failed"))
    /\ unfinished' = unfinished - 2
    /\ ItemDone(s)
    /\ UNCHANGED <<scorer, inputs, orch, queue, visited, visited_lock, dpc, rows, hist>>

\* page.content() or the link extraction raises after the success record was
\* put: the except branch
ExtractFails ==
  \E s \in At("content") :
    /\ ~Cancelled
    /\ Emit(Result(s.item, "Error", "failed"))
    /\ unfinished' = unfinished - 1
    /\ ItemDone(s)
    /\ UNCHANGED <<scorer, inputs, orch, queue, visited, visited_lock, dpc, rows, hist>>

\* await page.close()
ClosePage ==
  \E s \in At("close") :
    /\ ~Cancelled
    /\ Becomes(s, Local("done", None))
    /\ UNCHANGED <<scorer, inputs, orch, frontier, channel, visited, visited_lock, dpc,
                   rows, hist>>

\* await page.close() raises: the worker task ends with the exception
ClosePageFails ==
  \E s \in At("close") :
    /\ ~Cancelled
    /\ Becomes(s, Local("crashed", None))
    /\ nclosefail' = nclosefail + 1
    /\ UNCHANGED <<scorer, inputs, orch, frontier, channel, visited, visited_lock, dpc,
                   rows, passed, ndeq, nskip, nsent>>

Worker ==
  \/ NewPage \/ NewPageFails
  \/ GetSentinel \/ GetDuplicate \/ GetItem
  \/ Fetch \/ FetchFails
  \/ Extract \/ ExtractFails
  \/ ClosePage \/ ClosePageFails

\* ------------------------------------------- the link expansion on its own

\* a page with n same-host links, all allowed
Pages(n) == [i \in 1..n |-> "http://h/p" \o ToString(i)]

\* the list l, started at each of its positions
Rotations(l) ==
  {[i \in DOMAIN l |-> l[((i + k - 1) % Len(l)) + 1]] : k \in 0..(Len(l) - 1)}

\* list(set(discovered)) of the fetched page: short lists, lists one longer
\* than the scorer's limit, and lists around the length of the [:50] slice
Discoverable ==
  {l \in UNION {[1..n -> Candidates] : n \in 0..MaxLinks} : Distinct(l)}
    \cup UNION {Rotations(CHOOSE l \in ListOfSet(Candidates \ {c}) : TRUE) :
                c \in Candidates}
    \cup {Pages(n) : n \in (ShallowCap - 1)..(ShallowCap + 2)}

\* a worker has fetched arg_item's page and extracted its links; no crawl
\* is running around it
InitExpand ==
  /\ url = SeedUrl
  /\ recursive = FALSE
  /\ max_depth = 0
  /\ robots = "unreachable"
  /\ rp = get_robots_parser(robots)
  /\ opc = "start"
  /\ status = ""
  /\ pages_crawled = 0
  /\ queue = <<>>
  /\ unfinished = 0
  /\ db_queue = <<>>
  /\ db_unfinished = 0
  /\ visited \in SUBSET VisitedPool
  /\ visited_lock = FALSE
  /\ workers = EmptyBag
  /\ dpc = "none"
  /\ rows = <<>>
  /\ emitted = <<>>
  /\ passed = [u \in Urls |-> 0]
  /\ ndeq = 0
  /\ nskip = 0
  /\ nsent = 0
  /\ nclosefail = 0
  /\ cancelled = FALSE
  /\ arg_item \in {<<SeedUrl, d, m>> : d \in 0..MaxDepth, m \in 0..MaxDepth}
  /\ arg_links \in {l \in Discoverable : Elems(l) \subseteq Candidates \/ arg_item[2] < 2}
  /\ arg_limit = BestLimit
  /\ best = <<>>
  /\ best2 = <<>>
  /\ calls = 0

\* lines 136-153 for arg_item: best is the list of items put on the frontier
ExpandCall ==
  /\ calls = 0
  /\ ~visited_lock
  /\ best' = Enqueued(arg_item, arg_links, visited)
  /\ calls' = 1
  /\ UNCHANGED <<crawl, visited, arg_links, arg_limit, best2, arg_item>>

NextExpand == ExpandCall

SpecExpand == InitExpand /\ [][NextExpand]_vars

\* ------------------------------- the two critical sections on visited_lock
\*
\* The worker loop (lines 115-158) under a scheduler that may switch tasks
\* between any two statements of the sections at lines 122-126 and 149-150.
\* asyncio switches only at an await that suspends, and neither section has
\* one, so the crawl's steps above take each section as a whole.  The pages
\* here are three pages of depth 2 that carry the same links; the relay is
\* not scheduled.

\* the URLs of the items the workers hold
SectionUrls == {"http://h/ab", "http://h/ba", "http://h/a/b/c"}

\* list(set(discovered)) of the pages: one of these lists for all of them
SectionLinks == {<<"http://h/ab", "http://h/a/b/c/d">>, <<"http://h/ba">>}

\* the URLs that can pass the dedup check
SectionPages == SectionUrls \cup UNION {Elems(l) : l \in SectionLinks}

\* the worker tasks: one to three have dequeued an item of depth 2 (two of
\* them may hold the same URL), the others wait at queue.get()
Holding ==
  {b \in [{Local("lock", <<u, 2, 3>>) : u \in SectionUrls} -> 0..2] :
     LET n == b[Local("lock", <<"http://h/ab", 2, 3>>)]
                + b[Local("lock", <<"http://h/ba", 2, 3>>)]
                + b[Local("lock", <<"http://h/a/b/c", 2, 3>>)]
     IN n >= 1 /\ n <= 3}

\* a worker inside "async with visited_lock: targets = self._get_best_links(
\* ..., visited)": seen is the visited set as the scorer began to read it
Scoring(item, seen) == [pc |-> "score", item |-> item, seen |-> seen]

\* the seed was crawled, some workers have dequeued an item and are about to
\* enter the dedup section
InitSections ==
  /\ url = SeedUrl
  /\ recursive = TRUE
  /\ max_depth = 3
  /\ robots = "unreachable"
  /\ rp = get_robots_parser(robots)
  /\ opc = "join"
  /\ status = ""
  /\ pages_crawled = 0
  /\ queue = <<>>
  /\ db_queue = <<>>
  /\ db_unfinished = 0
  /\ visited \in {{SeedUrl}, {SeedUrl, "http://h/a/b/c"}}
  /\ visited_lock = FALSE
  /\ \E b \in Holding :
       LET held == BagCardinality([s \in {t \in DOMAIN b : b[t] > 0} |-> b[s]]) IN
       /\ workers = [s \in {t \in DOMAIN b : b[t] > 0} |-> b[s]]
                      (+) [s \in {Local("get", None)} |-> NUM - held]
       /\ unfinished = held
       /\ ndeq = held
  /\ dpc = "run"
  /\ rows = <<>>
  /\ emitted = <<>>
  /\ passed = [u \in Urls \cup SectionPages |-> 0]
  /\ nskip = 0
  /\ nsent = 0
  /\ nclosefail = 0
  /\ cancelled = FALSE
  /\ arg_links \in SectionLinks
  /\ arg_limit = BestLimit
  /\ best = <<>>
  /\ best2 = <<>>
  /\ calls = 0
  /\ arg_item = <<>>

\* item = await queue.get(); url, depth, max_depth = item (lines 115-120)
Dequeue ==
  \E s \in At("get") :
    /\ queue # <<>>
    /\ Head(queue) # None
    /\ queue' = Tail(queue)
    /\ ndeq' = ndeq + 1
    /\ Becomes(s, Local("lock", Head(queue)))
    /\ UNCHANGED <<scorer, inputs, orch, unfinished, channel, visited, visited_lock,
                   dpc, rows, passed, nskip, nsent, nclosefail>>

\* async with visited_lock (line 122): the lock is free and is taken
LockDedup ==
  \E s \in At("lock") :
    /\ ~visited_lock
    /\ visited_lock' = TRUE
    /\ Becomes(s, Local("check", s.item))
    /\ UNCHANGED <<scorer, inputs, orch, frontier, channel, visited, dpc, rows, hist>>

\* if url in visited: queue.task_done(); continue (the lock is released)
DedupHit ==
  \E s \in At("check") :
    /\ CheckVisited(s.item[1], visited)
    /\ unfinished' = unfinished - 1
    /\ nskip' = nskip + 1
    /\ visited_lock' = FALSE
    /\ Becomes(s, Local("get", None))
    /\ UNCHANGED <<scorer, inputs, orch, queue, channel, visited, dpc, rows,
                   passed, ndeq, nsent, nclosefail>>

\* if url in visited: no
DedupMiss ==
  \E s \in At("check") :
    /\ ~CheckVisited(s.item[1], visited)
    /\ Becomes(s, Local("add", s.item))
    /\ UNCHANGED <<scorer, inputs, orch, frontier, channel, visited, visited_lock, dpc,
                   rows, hist>>

\* visited.add(url); the lock is released; on to page.goto (the page calls
\* and db_queue.put are the steps Fetch, FetchFails and ExtractFails)
DedupAdd ==
  \E s \in At("add") :
    /\ visited' = MarkVisited(s.item[1], visited)
    /\ passed' = [passed EXCEPT ![s.item[1]] = @ + 1]
    /\ visited_lock' = FALSE
    /\ Becomes(s, Local("goto", s.item))
    /\ UNCHANGED <<scorer, inputs, orch, frontier, channel, dpc, rows,
                   ndeq, nskip, nsent, nclosefail>>

\* mutant of LockScore: the scorer is called without taking visited_lock
LockScore_NoLock ==
  \E s \in At("content") :
    /\ s.item[2] >= 2
    /\ Becomes(s, Scoring(s.item, visited))
    /\ UNCHANGED <<scorer, inputs, orch, frontier, channel, visited, visited_lock, dpc,
                   rows, hist>>

\* page.content() and the link extraction succeed (lines 137-144); depth >= 2:
\* async with visited_lock (line 149): the lock is free and is taken; the
\* scorer starts on visited
LockScore ==
  \E s \in At("content") :
    /\ s.item[2] >= 2
    /\ ~visited_lock
    /\ visited_lock' = TRUE
    /\ Becomes(s, Scoring(s.item, visited))
    /\ UNCHANGED <<scorer, inputs, orch, frontier, channel, visited, dpc, rows, hist>>

\* targets = self._get_best_links(list(set(discovered)), visited) returns and
\* the lock is released; for t in targets: await queue.put((t, depth + 1,
\* max_depth)); queue.task_done()
ScoreDone ==
  \E s \in At("score") :
    LET children == Enqueued(s.item, arg_links, visited) IN
    /\ best' = Targets(s.item[2], arg_links, visited)
    /\ queue' = PutAll(queue, children)
    /\ unfinished' = unfinished + Len(children) - 1
    /\ visited_lock' = FALSE
    /\ Becomes(s, Local("get", None))
    /\ UNCHANGED <<inputs, orch, channel, visited, dpc, rows, hist,
                   arg_links, arg_limit, best2, calls, arg_item>>

NextSections ==
  \/ Dequeue
  \/ LockDedup \/ DedupHit \/ DedupMiss \/ DedupAdd
  \/ Fetch \/ FetchFails \/ ExtractFails
  \/ LockScore \/ ScoreDone

SpecSections == InitSections /\ [][NextSections]_vars

\* --------------------------------------------------------------- the relay

\* mutant of DbInsert: the relay takes the newest record of the channel
\* instead of the oldest
DbInsert_Lifo ==
  /\ ~Cancelled
  /\ dpc = "run"
  /\ db_queue # <<>>
  /\ db_queue[Len(db_queue)] # None
  /\ db_queue' = SubSeq(db_queue, 1, Len(db_queue) - 1)
  /\ rows' = Append(rows, db_queue[Len(db_queue)])
  /\ db_unfinished' = db_unfinished - 1
  /\ UNCHANGED <<scorer, inputs, orch, frontier, emitted, visited, visited_lock, workers,
                 dpc, hist>>

\* item = await queue.get(); insert_page_async(*item); queue.task_done()
DbInsert ==
  /\ ~Cancelled
  /\ dpc = "run"
  /\ db_queue # <<>>
  /\ Head(db_queue) # None
  /\ db_queue' = Tail(db_queue)
  /\ rows' = Append(rows, Head(db_queue))
  /\ db_unfinished' = db_unfinished - 1
  /\ UNCHANGED <<scorer, inputs, orch, frontier, emitted, visited, visited_lock, workers,
                 dpc, hist>>

\* insert_page_async raises: the relay task ends with the exception, the
\* record it took is neither stored nor marked done
DbInsertFails ==
  /\ ~Cancelled
  /\ dpc = "run"
  /\ db_queue # <<>>
  /\ Head(db_queue) # None
  /\ db_queue' = Tail(db_queue)
  /\ dpc' = "crashed"
  /\ UNCHANGED <<scorer, inputs, orch, frontier, db_unfinished, emitted, visited,
                 visited_lock, workers, rows, hist>>

\* if item is None: break
DbSentinel ==
  /\ ~Cancelled
  /\ dpc = "run"
  /\ db_queue # <<>>
  /\ Head(db_queue) = None
  /\ db_queue' = Tail(db_queue)
  /\ dpc' = "done"
  /\ UNCHANGED <<scorer, inputs, orch, frontier, db_unfinished, emitted, visited,
                 visited_lock, workers, rows, hist>>

DbWriter == DbInsert \/ DbInsertFails \/ DbSentinel

\* -------------------------------------------------------- the orchestrator

\* mutant of DepthCap: the recursive flag is ignored
DepthCap_IgnoresRecursive == max_depth

\* max_depth if recursive else 0
DepthCap == IF recursive THEN max_depth ELSE 0

\* rp = self._get_robots_parser(url); the seed is disallowed
Blocked ==
  /\ opc = "start"
  /\ ~is_allowed(url, rp)
  /\ opc' = "returned"
  /\ status' = "blocked"
  /\ UNCHANGED <<scorer, inputs, pages_crawled, frontier, channel, visited,
                 visited_lock, workers, dpc, rows, hist, cancelled>>

\* mutant of Seed: the seed is enqueued without the is_allowed check
Seed_Unchecked ==
  /\ opc = "start"
  /\ queue' = Append(queue, <<url, 0, DepthCap>>)
  /\ unfinished' = unfinished + 1
  /\ opc' = "launch"
  /\ UNCHANGED <<scorer, inputs, status, pages_crawled, channel, visited, visited_lock,
                 workers, dpc, rows, hist, cancelled>>

\* queue.put_nowait((url, 0, max_depth if recursive else 0))
Seed ==
  /\ opc = "start"
  /\ is_allowed(url, rp)
  /\ queue' = Append(queue, <<url, 0, DepthCap>>)
  /\ unfinished' = unfinished + 1
  /\ opc' = "launch"
  /\ UNCHANGED <<scorer, inputs, status, pages_crawled, channel, visited, visited_lock,
                 workers, dpc, rows, hist, cancelled>>

\* chromium.launch and the NUM new_context calls succeed; the relay and the
\* workers are created
Launch ==
  /\ opc = "launch"
  /\ dpc' = "run"
  /\ workers' = [s \in {Local("new_page", None)} |-> NUM]
  /\ opc' = "join"
  /\ UNCHANGED <<scorer, inputs, status, pages_crawled, frontier, channel, visited,
                 visited_lock, rows, hist, cancelled>>

\* async_playwright(), chromium.launch or new_context raises out of crawl_url
LaunchFails ==
  /\ opc = "launch"
  /\ opc' = "raised"
  /\ UNCHANGED <<scorer, inputs, status, pages_crawled, frontier, channel, visited,
                 visited_lock, workers, dpc, rows, hist, cancelled>>

\* mutant of Join: the sentinels are put without await queue.join()
Join_NoWait ==
  /\ opc = "join"
  /\ queue' = PutAll(queue, [i \in 1..NUM |-> None])
  /\ unfinished' = unfinished + NUM
  /\ opc' = "gather"
  /\ UNCHANGED <<scorer, inputs, status, pages_crawled, channel, visited,
                 visited_lock, workers, dpc, rows, hist, cancelled>>

\* mutant of Join: one sentinel too few is put
Join_OneSentinelShort ==
  /\ opc = "join"
  /\ unfinished = 0
  /\ queue' = PutAll(queue, [i \in 1..(NUM - 1) |-> None])
  /\ unfinished' = unfinished + NUM - 1
  /\ opc' = "gather"
  /\ UNCHANGED <<scorer, inputs, status, pages_crawled, channel, visited, visited_lock,
                 workers, dpc, rows, hist, cancelled>>

\* await queue.join() returns; for _ in workers: await queue.put(None)
Join ==
  /\ opc = "join"
  /\ unfinished = 0
  /\ queue' = PutAll(queue, [i \in 1..NUM |-> None])
  /\ unfinished' = unfinished + NUM
  /\ opc' = "gather"
  /\ UNCHANGED <<scorer, inputs, status, pages_crawled, channel, visited, visited_lock,
                 workers, dpc, rows, hist, cancelled>>

\* await asyncio.gather(*workers): every worker has returned
Gather ==
  /\ opc = "gather"
  /\ CountAt("done") = NUM
  /\ opc' = "db_join"
  /\ UNCHANGED <<scorer, inputs, status, pages_crawled, frontier, channel, visited,
                 visited_lock, workers, dpc, rows, hist, cancelled>>

\* await asyncio.gather(*workers): a worker ended with an exception, which
\* gather raises out of crawl_url
GatherRaises ==
  /\ opc = "gather"
  /\ CountAt("crashed") > 0
  /\ opc' = "raised"
  /\ UNCHANGED <<scorer, inputs, status, pages_crawled, frontier, channel, visited,
                 visited_lock, workers, dpc, rows, hist, cancelled>>

\* await db_queue.join() returns; await db_queue.put(None)
DbJoin ==
  /\ opc = "db_join"
  /\ db_unfinished = 0
  /\ db_queue' = Append(db_queue, None)
  /\ db_unfinished' = db_unfinished + 1
  /\ opc' = "db_task"
  /\ UNCHANGED <<scorer, inputs, status, pages_crawled, frontier, emitted, visited,
                 visited_lock, workers, dpc, rows, hist, cancelled>>

\* mutant of Return: the rows are read back without awaiting db_task
Return_NoAwait ==
  /\ opc = "db_task"
  /\ status' = "success"
  /\ pages_crawled' = Len(rows)
  /\ opc' = "returned"
  /\ UNCHANGED <<scorer, inputs, frontier, channel, visited, visited_lock, workers, dpc,
                 rows, hist, cancelled>>

\* await db_task; rows = get_all_pages(session_id); return the summary
Return ==
  /\ opc = "db_task"
  /\ dpc = "done"
  /\ status' = "success"
  /\ pages_crawled' = Len(rows)
  /\ opc' = "returned"
  /\ UNCHANGED <<scorer, inputs, frontier, channel, visited, visited_lock, workers, dpc,
                 rows, hist, cancelled>>

\* await db_task returns; get_all_pages or the saving of the report files
\* (os.makedirs, open, json.dump) raises out of crawl_url
ReturnFails ==
  /\ opc = "db_task"
  /\ dpc = "done"
  /\ opc' = "raised"
  /\ UNCHANGED <<scorer, inputs, cancelled, status, pages_crawled, frontier, channel,
                 visited, visited_lock, workers, dpc, rows, hist>>

\* asyncio.run(crawl_url(...)): once crawl_url has raised, the loop finishes
\* the callbacks that are ready and the tasks left are cancelled where they
\* stand
CancelTasks ==
  /\ opc = "raised"
  /\ ~cancelled
  /\ cancelled' = TRUE
  /\ UNCHANGED <<scorer, inputs, opc, status, pages_crawled, frontier, channel,
                 visited, visited_lock, workers, dpc, rows, hist>>

Orchestrator ==
  \/ Blocked \/ Seed
  \/ Launch \/ LaunchFails
  \/ Join
  \/ Gather \/ GatherRaises
  \/ DbJoin
  \/ Return \/ ReturnFails
  \/ CancelTasks

\* ------------------------------------------------------- the specification

Next ==
  \/ Orchestrator
  \/ DbWriter
  \/ Worker

Spec == Init /\ [][Next]_vars

\* The event loop always runs a task that is ready, and every awaited
\* operation completes (with a result or an exception).
SpecFair == Spec /\ WF_vars(Next)

\* ------------------------------------------------------------- the claims

\* workers that hold a dequeued item they have not marked done
InFlight == CountAt("goto") + CountAt("content")

\* the real (non-sentinel) items queued in the frontier
RealQueued == Cardinality({i \in DOMAIN queue : queue[i] # None})

\* the records put on the results channel for URL u
ResultsFor(u) == {i \in DOMAIN emitted : emitted[i][1] = u}

\* C1: every URL passes the dedup check (is found absent from visited and
\* added) at most once in a crawl, however often it is enqueued.
C1_DedupPassesOnce == \A u \in Urls : passed[u] <= 1

\* a URL was dequeued a second time and skipped, after its one pass
C1_Witness ==
  /\ nskip > 0
  /\ passed["http://h/a"] = 1
  /\ \E i \in DOMAIN queue : queue[i] # None /\ queue[i][1] = "http://h/a"

\* C2: queue.join() can return exactly when the frontier is empty and no
\* worker holds an item it has not marked done; the unfinished count is the
\* number of such items.
C2_JoinIffDrained ==
  /\ unfinished = Len(queue) + InFlight
  /\ ENABLED Join <=> (opc = "join" /\ queue = <<>> /\ InFlight = 0)

\* the wait has just returned after real work, duplicates included; the
\* sentinels are queued and none is taken yet
C2_Witness ==
  /\ opc = "gather"
  /\ nsent = 0
  /\ ndeq >= 3
  /\ nskip > 0
  /\ InFlight = 0

\* C3 (as claimed): a dequeued item that is not a duplicate skip yields
\* exactly one CrawlResult, success or failed and never both, so the results
\* never outnumber the dequeued items.
C3_OneResultPerItem ==
  /\ Len(emitted) <= ndeq - nskip
  /\ \A i, j \in DOMAIN emitted :
       emitted[i][1] = emitted[j][1] => emitted[i][4] = emitted[j][4]

\* a worker's navigation to the item of s fails in this step
NavigationFails(s) ==
  /\ s.pc = "goto"
  /\ CopiesIn(s, workers') = CopiesIn(s, workers) - 1
  /\ Len(emitted') = Len(emitted) + 1
  /\ emitted'[Len(emitted')][4] = "failed"

\* C4: a failed navigation yields the item's only CrawlResult, failed with
\* title "Error"; nothing is enqueued, the item is marked done, and the
\* worker is back at queue.get(), no worker having ended.
C4_FetchFailure ==
  [][\A s \in At("goto") :
       NavigationFails(s) =>
         /\ emitted' = Append(emitted, <<s.item[1], "Error", s.item[2], "failed">>)
         /\ ResultsFor(s.item[1]) = {}
         /\ queue' = queue
         /\ unfinished' = unfinished - 1
         /\ CopiesIn(Local("get", None), workers')
              = CopiesIn(Local("get", None), workers) + 1
         /\ CountAt("crashed")' = CountAt("crashed")
         /\ CountAt("done")' = CountAt("done")]_vars

\* the crawl has returned; /a failed with its one record and enqueued nothing,
\* its sibling /private was fetched
C4_Witness ==
  /\ opc = "returned"
  /\ \E i \in DOMAIN rows : rows[i] = <<"http://h/a", "Error", 1, "failed">>
  /\ Cardinality(ResultsFor("http://h/a")) = 1
  /\ \E i \in DOMAIN rows : rows[i] = <<"http://h/private", "Title", 1, "success">>
  /\ passed["http://h/c/d"] = 0

\* the browser, a context or a worker's page could not be started or closed,
\* or the stored rows could not be read back or saved: crawl_url raised or a
\* worker task ended with an exception
SessionFault == opc = "raised" \/ CountAt("crashed") > 0

\* a storage insert raised
StorageFault == dpc = "crashed"

\* crawl_url has ended: it returned a summary or raised
Ended == opc \in {"returned", "raised"}

\* C5 (as claimed): with a permitted seed, every fetch completing and every
\* insert succeeding, crawl_url eventually returns: it never comes to rest
\* before it has ended (an exception counted as an end).
C5_Terminates ==
  (is_allowed(url, rp) /\ ~StorageFault) => (ENABLED Next \/ Ended)

\* With the sessions started as well (no SessionFault), crawl_url does return
\* its summary: the frontier is drained, all NUM workers have left after
\* their sentinel and the relay after its own.
TerminatesWithoutFaults ==
  is_allowed(url, rp) =>
    <>(\/ SessionFault
       \/ StorageFault
       \/ /\ opc = "returned"
          /\ status = "success"
          /\ queue = <<>>
          /\ unfinished = 0
          /\ CountAt("done") = NUM
          /\ nsent = NUM
          /\ dpc = "done")

\* C6: with a disallowed seed nothing is started: no frontier item, worker,
\* relay, fetch or insert; crawl_url returns status blocked.
C6_BlockedSeed ==
  ~is_allowed(url, rp) =>
    /\ opc \in {"start", "returned"}
    /\ opc = "returned" => status = "blocked"
    /\ queue = <<>> /\ unfinished = 0
    /\ workers = EmptyBag
    /\ dpc = "none"
    /\ visited = {} /\ ndeq = 0
    /\ emitted = <<>> /\ db_queue = <<>>
    /\ rows = <<>>

\* crawl_url has returned blocked
C6_Witness == opc = "returned" /\ status = "blocked"

\* C7: with recursive off or max_depth 0, the seed is the only real item
\* ever enqueued, at most one CrawlResult is produced, and a seed fetched
\* successfully gives a summary with pages_crawled = 1.
C7_SinglePage ==
  (~recursive \/ max_depth = 0) =>
    /\ ndeq + RealQueued <= 1
    /\ \A i \in DOMAIN queue : queue[i] # None => queue[i] = <<url, 0, 0>>
    /\ Len(emitted) <= 1
    /\ (opc = "returned" /\ status = "success" /\ emitted # <<>>
        /\ emitted[1][4] = "success") =>
         /\ emitted = <<<<url, "Title", 0, "success">>>>
         /\ rows = emitted
         /\ pages_crawled = 1

\* recursive is off, max_depth is not 0, the seed was fetched and the crawl
\* has returned
C7_Witness ==
  /\ ~recursive /\ max_depth > 0
  /\ opc = "returned" /\ status = "success"
  /\ emitted = <<<<url, "Title", 0, "success">>>>
  /\ pages_crawled = 1

\* C8: when crawl_url reads the rows back and returns, the relay has exited
\* and every CrawlResult put on the results channel is stored, in order.
C8_ReadAfterRelay ==
  (opc = "returned" /\ status = "success") =>
    /\ dpc = "done"
    /\ db_queue = <<>>
    /\ rows = emitted
    /\ pages_crawled = Len(emitted)

\* a crawl of several pages has returned
C8_Witness ==
  /\ opc = "returned" /\ status = "success"
  /\ Len(emitted) >= 4

\* C9 (as claimed): after a failed insert crawl_url ends with an error: it
\* does not return success, and it does not wait forever (it can still take
\* a step until it has raised or reported the error).
C9_StorageFailureSurfaced ==
  StorageFault =>
    /\ ~(opc = "returned" /\ status = "success")
    /\ \/ ENABLED Next
       \/ opc = "raised"
       \/ opc = "returned" /\ status = "error"

\* C10 (as claimed): when the browser or workers' pages could not be started,
\* crawl_url ends with an error: it does not return success, and it does not
\* wait forever (it can still take a step until it has raised or reported the
\* error).
C10_SessionFailureSurfaced ==
  (SessionFault /\ ~StorageFault) =>
    /\ ~(opc = "returned" /\ status = "success")
    /\ \/ ENABLED Next
       \/ opc = "raised"
       \/ opc = "returned" /\ status = "error"

\* C11: a row is stored only by a step of the relay, which stores the record
\* at the head of the results channel: no step of a worker or of the
\* orchestrator changes the stored rows, and a step stores one record only.
C11_OnlyRelayInserts ==
  [][rows' # rows =>
       /\ dpc = "run"
       /\ db_queue # <<>>
       /\ rows' = Append(rows, Head(db_queue))
       /\ db_queue' = Tail(db_queue)
       /\ workers' = workers
       /\ opc' = opc]_vars

\* the relay has stored records while a worker is fetching and another
\* record waits on the results channel
C11_Witness ==
  /\ Len(rows) >= 2
  /\ CountAt("goto") > 0
  /\ db_queue # <<>>

\* C12: every URL that is queued in the frontier, held by a worker, in the
\* visited set or in a CrawlResult is one is_allowed permits under the
\* crawl's robots policy.
C12_GateApproved ==
  /\ \A i \in DOMAIN queue : queue[i] # None => is_allowed(queue[i][1], rp)
  /\ \A s \in BagToSet(workers) : s.item # None => is_allowed(s.item[1], rp)
  /\ \A u \in visited : is_allowed(u, rp)
  /\ \A i \in DOMAIN emitted : is_allowed(emitted[i][1], rp)

\* under "Disallow: /private" the crawl has returned: the seed's links were
\* followed to /a and beyond, and /private, which the seed links to, was not
\* fetched
C12_Witness ==
  /\ rp = "disallow_private"
  /\ opc = "returned"
  /\ {"http://h/a", "http://h/c/d"} \subseteq visited
  /\ "http://h/private" \notin visited

\* C13: when fetching or parsing robots.txt failed, is_allowed permits every
\* URL; a URL whose evaluation raises is permitted; in both cases crawl_url
\* goes on to seed the frontier and never returns blocked.
C13_FailOpen ==
  /\ robots = "unreachable" =>
       \A u \in Urls : is_allowed(u, rp)
  /\ \A u \in Urls : CanFetchRaises(u, rp) => is_allowed(u, rp)
  /\ (robots = "unreachable" \/ CanFetchRaises(url, rp)) =>
       /\ status # "blocked"
       /\ opc = "start" => (ENABLED Seed /\ ~ENABLED Blocked)

\* robots.txt was unreachable and the crawl has returned with /private, which
\* the file would have disallowed, among the pages fetched
C13_Witness ==
  /\ robots = "unreachable"
  /\ opc = "returned"
  /\ status = "success"
  /\ "http://h/private" \in visited

\* C14: _get_best_links returns min(limit, number of candidates) URLs, each
\* drawn from the candidates and none twice, in non-increasing score order,
\* and no candidate left out scores strictly higher than a returned one.
C14_TopByScore ==
  calls >= 1 =>
    /\ Len(best) = Min(arg_limit, Len(arg_links))
    /\ Distinct(best)
    /\ Elems(best) \subseteq Elems(arg_links)
    /\ \A i, j \in DOMAIN best :
         i < j => Score(best[i], visited) >= Score(best[j], visited)
    /\ \A u \in Elems(arg_links) \ Elems(best) :
         \A i \in DOMAIN best : Score(u, visited) <= Score(best[i], visited)

\* three candidates given in ascending score order, scored against a
\* non-empty visited set, limit 2: the lowest is left out
C14_Witness ==
  /\ calls >= 1
  /\ visited # {}
  /\ Len(arg_links) = 3
  /\ arg_limit = 2
  /\ Score(arg_links[1], visited) < Score(arg_links[2], visited)
  /\ Score(arg_links[2], visited) < Score(arg_links[3], visited)
  /\ best = <<arg_links[3], arg_links[2]>>

\* C15 (as claimed): of two candidates with equal scores, the one earlier in
\* the input list is ranked before the other in the output.
C15_StableTies ==
  calls >= 1 =>
    \A i, j \in DOMAIN arg_links :
      (i < j /\ Score(arg_links[i], visited) = Score(arg_links[j], visited)) =>
        \A a, b \in DOMAIN best :
          (best[a] = arg_links[i] /\ best[b] = arg_links[j]) => a < b

\* C16: called again with the same candidates in another list order and the
\* same visited set and limit, _get_best_links returns the same ordered list.
C16_OrderIndependent ==
  calls = 2 => best2 = best

\* the second call was given three candidates in another order, two of them
\* of equal score, and both are returned
C16_Witness ==
  /\ calls = 2
  /\ Len(arg_links) = 3
  /\ \E i, j \in DOMAIN best2 :
       /\ i # j
       /\ Score(best2[i], visited) = Score(best2[j], visited)

\* the visited URLs more than 0.85 similar to the link
SimilarVisited(link) == {v \in visited : Similarity(link, v) > 850}

\* C17: a candidate's score is lowered by exactly 5 for each visited URL more
\* than 0.85 similar to it; a visited URL exactly 0.85 similar lowers nothing;
\* so with a similar visited URL it scores at least 5 below what it scores
\* with none.
C17_DupPenalty ==
  calls >= 1 =>
    \A i \in DOMAIN arg_links :
      LET link == arg_links[i] IN
      /\ Score(link, visited)
           = Score(link, {}) - 5000 * Cardinality(SimilarVisited(link))
      /\ \A v \in visited :
           Similarity(link, v) = 850 =>
             Score(link, visited) = Score(link, visited \ {v})
      /\ SimilarVisited(link) # {} =>
           Score(link, visited) <= Score(link, visited \ SimilarVisited(link)) - 5000

\* /a/b/c/d/e is scored against one visited URL exactly 0.85 similar to it and
\* one 0.875 similar: it is penalised once
C17_Witness ==
  /\ calls >= 1
  /\ "http://h/a/b/c/d/e" \in Elems(arg_links)
  /\ visited = {"http://h/a/b/c/d/xxxxx", "http://h/a/b/c"}
  /\ Similarity("http://h/a/b/c/d/e", "http://h/a/b/c/d/xxxxx") = 850
  /\ Score("http://h/a/b/c/d/e", visited) = Score("http://h/a/b/c/d/e", {}) - 5000

\* the non-empty segments of the link's path
Segments(link) == {i \in DOMAIN PathSplit(link) : PathSplit(link)[i] # ""}

\* C18: what a candidate's score holds besides entropy, length bonus and
\* duplicate penalty is 2 when its path has 2, 3 or 4 non-empty segments and
\* 0 when it has 0, 1, or 5 or more.
C18_DepthBonus ==
  calls >= 1 =>
    \A i \in DOMAIN arg_links :
      LET link == arg_links[i] IN
      Score(link, visited) - UrlEntropy(link) - LengthBonus(link)
          - DupPenalty(link, visited)
        = IF Cardinality(Segments(link)) \in {2, 3, 4} THEN 2000 ELSE 0

\* candidates of 1, 2 (around an empty segment) and 5 segments: the one of 2,
\* lowest in entropy, is ranked first
C18_Witness ==
  /\ calls >= 1
  /\ visited = {}
  /\ arg_links = <<"http://h/ab", "http://h/a/b/c/d/e", "http://h/a//b">>
  /\ arg_limit = 2
  /\ best = <<"http://h/a//b", "http://h/a/b/c/d/e">>

\* the sentinels queued in the frontier
SentinelsQueued == Cardinality({i \in DOMAIN queue : queue[i] = None})

\* the workers that have left their loop
Exited == CountAt("close") + CountAt("done") + nclosefail

\* C19: a sentinel is in the frontier, or was taken from it, only after
\* queue.join() has returned, and from then on no real item is queued or held
\* by a worker: no worker has left its loop while real work remains.
C19_SentinelsAfterWork ==
  (SentinelsQueued > 0 \/ nsent > 0 \/ Exited > 0) =>
    /\ opc \notin {"start", "launch", "join"}
    /\ RealQueued = 0
    /\ InFlight = 0

\* after a crawl of several pages some workers have taken their sentinel and
\* others have not yet
C19_Witness ==
  /\ ndeq >= 3
  /\ nsent > 0
  /\ SentinelsQueued > 0
  /\ CountAt("get") > 0

\* C20: once queue.join() has returned NUM sentinels are put, one per worker;
\* a worker has left its loop exactly when it took one sentinel, which it
\* marked done, and it holds no item; when all NUM workers have returned the
\* frontier is empty with nothing unfinished.
C20_OneSentinelEach ==
  /\ opc \in {"start", "launch", "join"} => SentinelsQueued + nsent = 0
  /\ (opc \in {"gather", "db_join", "db_task"} \/ status = "success") =>
       SentinelsQueued + nsent = NUM
  /\ SentinelsQueued + nsent \in {0, NUM}
  /\ nsent = Exited
  /\ \A s \in At("close") \cup At("done") : s.item = None
  /\ nsent > 0 => unfinished = SentinelsQueued
  /\ CountAt("done") = NUM => (queue = <<>> /\ unfinished = 0)

\* all NUM workers have returned after a crawl of several pages
C20_Witness ==
  /\ CountAt("done") = NUM
  /\ nsent = NUM
  /\ ndeq >= 3

\* ------------------------------------------------------------------- C21

\* the record the relay took from db_queue when insert_page_async raised:
\* the relay stores in arrival order, so it is the one after the stored ones
Taken == IF dpc = "crashed" THEN {emitted[Len(rows) + 1]} ELSE {}

\* the CrawlResults on the results channel or in storage
ChannelOrStorage == (Elems(rows) \cup Elems(db_queue)) \ {None}

\* C21 (as claimed): once some worker has left its loop (it took a
\* sentinel), every URL in the visited set has its CrawlResult on the
\* results channel or in storage: no item that passed the dedup check is
\* without a terminal result at shutdown.
C21_ResultsBeforeExit ==
  Exited > 0 => \A u \in visited : \E r \in ChannelOrStorage : r[1] = u

\* the records handed to the relay: stored, still queued, or taken by it
HandedOver == ChannelOrStorage \cup Taken

\* Every worker does put the record of its item before it leaves: once some
\* worker has left its loop, every URL in the visited set has a CrawlResult
\* that is stored, still on the results channel, or the one the relay had
\* taken when its insert raised.
ResultsPutBeforeExit ==
  Exited > 0 => \A u \in visited : \E r \in HandedOver : r[1] = u

\* ------------------------------------------------------------------- C22

\* the CrawlResults waiting on the results channel, oldest first
Waiting == SelectSeq(db_queue, LAMBDA r : r # None)

\* C22: the relay stores the CrawlResults in exactly the order they were
\* put on the results channel: the stored rows are the first records put,
\* in that order, and the waiting ones follow them (after the one record a
\* failed insert took). So the results one worker put are stored in the
\* order it put them: for an item with two records, its success record is
\* stored before its failed one.
C22_ArrivalOrder ==
  /\ Len(rows) <= Len(emitted)
  /\ rows = SubSeq(emitted, 1, Len(rows))
  /\ Waiting = SubSeq(emitted, Len(rows) + Cardinality(Taken) + 1, Len(emitted))
  /\ \A i, j \in DOMAIN rows :
       (i < j /\ rows[i][1] = rows[j][1]) =>
         rows[i][4] = "success" /\ rows[j][4] = "failed"

\* one item's two records, put by the same worker, are both stored, and the
\* record of a deeper page is stored before that of a shallower page, which
\* another worker fetched: results of different workers interleave
C22_Witness ==
  /\ Len(rows) >= 3
  /\ Waiting # <<>>
  /\ \E i, j \in DOMAIN rows : i < j /\ rows[i][1] = rows[j][1]
  /\ \E i, j \in DOMAIN rows : i < j /\ rows[i][3] > rows[j][3]

\* ------------------------------------------------------------------- C23

\* C23: for a fetched item with depth < max_depth the worker enqueues, at
\* depth 0 or 1, the first 50 of the distinct discovered links in their list
\* order (the scorer is not asked), and at depth 2 or more at most 5 of
\* them, none scoring lower than a link left out; every child carries
\* depth + 1 and the parent's max_depth; an item with depth >= max_depth
\* enqueues nothing.
C23_Expansion ==
  (calls = 1 /\ arg_item # <<>>) =>
    LET depth == arg_item[2]
        cap == arg_item[3]
        chosen == {best[i][1] : i \in DOMAIN best}
    IN /\ depth >= cap => best = <<>>
       /\ depth < cap =>
            /\ \A i \in DOMAIN best :
                 /\ best[i][1] \in Elems(arg_links)
                 /\ best[i][2] = depth + 1
                 /\ best[i][3] = cap
            /\ \A i, j \in DOMAIN best : best[i][1] = best[j][1] => i = j
            /\ depth < 2 =>
                 /\ Len(best) = Min(Len(arg_links), 50)
                 /\ \A i \in DOMAIN best : best[i][1] = arg_links[i]
            /\ depth >= 2 =>
                 /\ Len(best) = Min(Len(arg_links), 5)
                 /\ \A c \in chosen : \A l \in Elems(arg_links) \ chosen :
                      Score(l, visited) <= Score(c, visited)

\* a depth-1 page with more than 50 links: 50 children are enqueued
C23_Witness ==
  /\ calls = 1
  /\ arg_item # <<>>
  /\ arg_item[2] = 1
  /\ arg_item[3] > 1
  /\ Len(arg_links) > 50
  /\ Len(best) = 50

\* a depth-2 page with more than 5 links: the scorer's 5 are enqueued
C23_ScorerCapBinds ==
  /\ calls = 1
  /\ arg_item # <<>>
  /\ arg_item[2] = 2
  /\ arg_item[3] > 2
  /\ Len(arg_links) > 5
  /\ Len(best) = 5

\* ------------------------------------------------------------------- C24

\* the workers inside a critical section on the visited set
InSection == CountAt("check") + CountAt("add") + CountAt("score")

\* C24: the scorer reads the visited set under the lock of the dedup
\* check-and-insert: at most one worker is inside a visited-set critical
\* section, it is the holder of visited_lock, and while a worker is scoring
\* the visited set is as it was when the scorer began to read it.
C24_SectionsExclusive ==
  /\ InSection <= 1
  /\ visited_lock <=> InSection = 1
  /\ \A s \in At("score") : s.seen = visited

\* a worker is scoring against a visited set that other workers have added
\* to, while workers wait for the lock before the dedup check and before
\* scoring
C24_Witness ==
  /\ CountAt("score") = 1
  /\ CountAt("lock") > 0
  /\ CountAt("content") > 0
  /\ Cardinality(visited) >= 3

\* ------------------------------------------------------------------- C25

\* C25: a step that dequeues a real item whose URL is already in the
\* visited set only marks the item done: the item leaves the queue and the
\* unfinished count drops by one, while the visited set, the results
\* channel, the stored rows and the rest of the queue stay as they are, no
\* worker starts a fetch, and the worker is again at queue.get().
C25_DuplicateSkipFrame ==
  [][(/\ ndeq' # ndeq
      /\ Head(queue)[1] \in visited)
       => /\ queue' = Tail(queue)
          /\ unfinished' = unfinished - 1
          /\ visited' = visited
          /\ db_queue' = db_queue
          /\ db_unfinished' = db_unfinished
          /\ emitted' = emitted
          /\ rows' = rows
          /\ workers' = workers
          /\ passed' = passed
          /\ nskip' = nskip + 1]_vars

\* a duplicate has been skipped while another item is being fetched
C25_Witness ==
  /\ nskip > 0
  /\ CountAt("get") > 0
  /\ InFlight > 0

\* ------------------------------------------------------------------- C26

\* the workers whose task has not ended with an exception
Live == NUM - CountAt("crashed")

\* a worker that cannot take its next step: it waits at queue.get() on an
\* empty frontier, or for visited_lock (before the dedup check or before
\* scoring) while another task holds it. The puts never wait: both queues
\* are created without maxsize.
Waits(s) ==
  \/ s.pc = "get" /\ (queue = <<>> \/ visited_lock)
  \/ s.pc = "content" /\ s.item[2] >= 2 /\ visited_lock

\* C26: while crawl_url waits in queue.join() with items unfinished and at
\* least one live worker, the live workers are never all blocked: one of
\* them is fetching, enqueuing, or can dequeue. In particular, when every
\* live worker waits at queue.get(), the frontier holds an item and a
\* dequeue step is possible.
C26_NoDeadlockBeforeDrain ==
  (opc = "join" /\ unfinished > 0 /\ Live > 0) =>
    /\ \E s \in BagToSet(workers) : s.pc # "crashed" /\ ~Waits(s)
    /\ (CountAt("new_page") + InFlight = 0) => ENABLED (GetItem \/ GetDuplicate)

\* during the drain wait some workers have crashed, one waits on the empty
\* frontier and one is between its fetch and its enqueues
C26_Witness ==
  /\ opc = "join"
  /\ unfinished > 0
  /\ CountAt("crashed") > 0
  /\ queue = <<>>
  /\ CountAt("get") > 0
  /\ CountAt("content") > 0
  /\ db_queue # <<>>

\* ------------------------------------------------------------------- C27

\* the FrontierItems in the frontier or held by a worker
Items ==
  {queue[i] : i \in {j \in DOMAIN queue : queue[j] # None}}
    \cup {s.item : s \in At("goto") \cup At("content")}

\* C27: every FrontierItem carries the seed's cap (the caller's max_depth
\* when recursive, otherwise 0) and a depth between 0 and that cap, and no
\* CrawlResult has a depth above the cap.
C27_DepthWithinCap ==
  LET cap == IF recursive THEN max_depth ELSE 0
  IN /\ \A item \in Items : item[3] = cap /\ 0 <= item[2] /\ item[2] <= cap
     /\ \A i \in DOMAIN emitted : 0 <= emitted[i][3] /\ emitted[i][3] <= cap

\* with cap 3, items of depth 3 are queued and a page of depth 2 has its
\* result
C27_Witness ==
  /\ recursive
  /\ max_depth = 3
  /\ \E item \in Items : item[2] = 3
  /\ \E i \in DOMAIN emitted : emitted[i][3] = 2

\* ------------------------------------------------------------------- C28

\* the items taken from the frontier, sentinels included
Dequeues == ndeq + nsent

\* the queue.task_done() calls made: every item put is queued or was
\* dequeued, and unfinished counts the puts not yet marked done
MarkDones == Len(queue) + Dequeues - unfinished

\* C28: every dequeued item is marked done exactly once, whichever path it
\* takes: the mark-done calls are the dequeues less the items a worker still
\* holds, so they never exceed the dequeues; the unfinished count is never
\* negative, and it is 0 once no item is queued or held.
C28_DoneOncePerDequeue ==
  /\ MarkDones = Dequeues - InFlight
  /\ MarkDones <= Dequeues
  /\ unfinished >= 0
  /\ (queue = <<>> /\ InFlight = 0) => unfinished = 0

\* all four paths were taken: a sentinel, a duplicate skip, a successful
\* fetch and a failed one; sentinels are still queued
C28_Witness ==
  /\ nsent > 0
  /\ nskip > 0
  /\ \E i \in DOMAIN emitted : emitted[i][4] = "success"
  /\ \E i \in DOMAIN emitted : emitted[i][4] = "failed"
  /\ unfinished > 0

\* ------------------------------------------------------------------- C29

\* C29: every URL in the frontier or held by a worker, every URL in the
\* visited set and every URL of a CrawlResult has the seed's netloc: a link
\* to another host is never enqueued.
C29_SameHost ==
  /\ \A item \in Items : Netloc(item[1]) = Netloc(url)
  /\ \A u \in visited : Netloc(u) = Netloc(url)
  /\ \A i \in DOMAIN emitted : Netloc(emitted[i][1]) = Netloc(url)

\* the seed page, which links to another host, was expanded: its same-host
\* children are queued or fetched and the seed's result is stored
C29_Witness ==
  /\ "http://x/" \in Elems(Hrefs(url))
  /\ \E item \in Items : item[2] = 1
  /\ \E i \in DOMAIN rows : rows[i][1] = url /\ rows[i][4] = "success"
  /\ Cardinality(visited) >= 3

====
